---- MODULE Spec2Model ----
(***************************************************************************)
(* Katamari: the population of bodies (ObjectManager), the growth of the   *)
(* player sphere (GameController) and the frame loop that drives them.     *)
(*                                                                         *)
(* Lengths are integers in model units of 1/20 world unit, written W(n)    *)
(* for n world units.  A value of Math.random() is n/800 and is carried as *)
(* its numerator n.  A radius r is carried exactly by its cube,            *)
(*     r^3 = a/4 + b/(8*pi),                                               *)
(* and a volume exactly as  V = a*pi/3 + b/6  (both in cubic model units), *)
(* so that the volume of a sphere of radius [a, b] is the volume [a, b]    *)
(* and every comparison reduces to the sign of 2*pi*a + b.                 *)
(***************************************************************************)
EXTENDS Integers, Sequences, FiniteSets, TLC

\* ---------------------------------------------------------------- bounds
\* Population ceiling of the modelled sessions (the shipped value is 1500).
MaxObjects == 2
\* Frames stop being modelled once this many bodies have been absorbed.
MaxAbsorbed == 2
\* INITIAL_OBJECTS_COUNT of the session whose initial spawning runs into its
\* early exit (which needs 100 attempts, hence a count above 50).
BailCount == 51
\* INITIAL_OBJECTS_COUNT = MAX_OBJECTS_COUNT of the crowded sessions, in which
\* maintenance has six or more bodies to replace.
CrowdedCount == 9

\* ------------------------------------------------ window.GAME_CONFIG
MAP_SIZE == 1000
PLAYABLE_AREA == 400
MAX_OBJECT_SIZE == 1
\* const MAX_ATTEMPTS = 50 in _findNonOverlappingPosition
MAX_ATTEMPTS == 50

W(n) == 20 * n

\* The sessions modelled: INITIAL_OBJECTS_COUNT, MAX_OBJECTS_COUNT and
\* RESPAWN_OBJECTS are chosen when the page loads.
Configs ==
  { [INITIAL_OBJECTS_COUNT |-> MaxObjects, MAX_OBJECTS_COUNT |-> MaxObjects,
     RESPAWN_OBJECTS |-> TRUE],
    [INITIAL_OBJECTS_COUNT |-> MaxObjects + 1, MAX_OBJECTS_COUNT |-> MaxObjects,
     RESPAWN_OBJECTS |-> FALSE] }

\* ------------------------------------------------------- Math.random()
\* Numerators n of the values n/800 drawn at each call site.
CategoryDraws == {0, 560}
IndexDraws == {0, 400, 640}
SizeDraws == {720}
\* draws whose square root is again a multiple of 1/800
SqrtDraws == {0, 648}
XDraws == {400, 402}
ZDraws == {0, 400}

\* Math.sqrt(n/800) as a numerator over 800, rounded down
Sqrt(n) == CHOOSE m \in 0..800 : m * m <= 800 * n /\ (m + 1) * (m + 1) > 800 * n

\* helpers.js randomInRange(min, max) = min + Math.random() * (max - min)
randomInRange(min, max, n) == min + (n * (max - min)) \div 800

Min(x, y) == IF x <= y THEN x ELSE y

\* ------------------------------------------------------ exact arithmetic
Sgn(n) == IF n > 0 THEN 1 ELSE IF n < 0 THEN -1 ELSE 0
Abs(n) == IF n < 0 THEN -n ELSE n

\* pi * m < n for positive integers, decided by 333/106 < pi < 355/113
PiLess(m, n) ==
  IF m <= n \div 4 THEN TRUE
  ELSE IF m >= (n + 2) \div 3 THEN FALSE
  ELSE IF 355 * m <= 113 * n THEN TRUE
  ELSE IF 333 * m >= 106 * n THEN FALSE
  ELSE CHOOSE undecided \in {} : TRUE

\* sign of 2*pi*a + b
Sign(a, b) ==
  IF a = 0 THEN Sgn(b)
  ELSE IF b = 0 THEN Sgn(a)
  ELSE IF Sgn(a) = Sgn(b) THEN Sgn(a)
  ELSE IF PiLess(2 * Abs(a), Abs(b)) THEN Sgn(b) ELSE Sgn(a)

\* JavaScript numbers: finite, NaN or Infinity
Fin(a, b) == [k |-> "fin", a |-> a, b |-> b]
NaN == [k |-> "nan", a |-> 0, b |-> 0]
Infinity == [k |-> "inf", a |-> 0, b |-> 0]
isNaN(v) == v.k = "nan"
\* v <= 0 (false for NaN, false for Infinity)
LeqZero(v) == v.k = "fin" /\ Sign(v.a, v.b) <= 0
\* v + w
Plus(v, w) ==
  IF isNaN(v) \/ isNaN(w) THEN NaN
  ELSE IF v.k = "inf" \/ w.k = "inf" THEN Infinity
  ELSE Fin(v.a + w.a, v.b + w.b)
\* the radius whose value is exactly s model units
Radius(s) == Fin(4 * s * s * s, 0)
\* r1 < r2 for radii (false when either is NaN)
RadiusLess(r1, r2) ==
  IF isNaN(r1) \/ isNaN(r2) THEN FALSE
  ELSE IF r1.k = "inf" THEN FALSE
  ELSE IF r2.k = "inf" THEN TRUE
  ELSE Sign(r2.a - r1.a, r2.b - r1.b) > 0

\* ------------------------------------------------------ ObjectManager
\* this.objectDefinitions; sizeRange in model units
objectDefinitions ==
  << [id |-> "smallCube", geometryType |-> "box", sizeRange |-> <<10, W(10)>>],
     [id |-> "smallSphere", geometryType |-> "sphere", sizeRange |-> <<10, W(15)>>],
     [id |-> "mediumCube", geometryType |-> "box", sizeRange |-> <<W(5), W(25)>>],
     [id |-> "mediumSphere", geometryType |-> "sphere", sizeRange |-> <<W(5), W(30)>>],
     [id |-> "cone", geometryType |-> "cone", sizeRange |-> <<W(3), W(20)>>],
     [id |-> "cylinder", geometryType |-> "cylinder", sizeRange |-> <<W(3), W(25)>>],
     [id |-> "largeCube", geometryType |-> "box", sizeRange |-> <<W(10), W(50)>>],
     [id |-> "largeSphere", geometryType |-> "sphere", sizeRange |-> <<W(10), W(60)>>],
     [id |-> "hugeCube", geometryType |-> "box",
      sizeRange |-> <<W(30), W(MAX_OBJECT_SIZE) \div 2>>],
     [id |-> "hugeSphere", geometryType |-> "sphere",
      sizeRange |-> <<W(30), W(MAX_OBJECT_SIZE)>>] >>

\* obj.id.includes('small' | 'medium' | 'large' | 'huge')
IdIncludes(id, word) ==
  CASE word = "small" -> id \in {"smallCube", "smallSphere"}
    [] word = "medium" -> id \in {"mediumCube", "mediumSphere"}
    [] word = "large" -> id \in {"largeCube", "largeSphere"}
    [] word = "huge" -> id \in {"hugeCube", "hugeSphere"}

smallObjects ==
  LET T(obj) == obj.sizeRange[2] <= W(15) /\ IdIncludes(obj.id, "small")
  IN  SelectSeq(objectDefinitions, T)
mediumObjects ==
  LET T(obj) == (obj.sizeRange[2] > W(15) /\ obj.sizeRange[2] <= W(30))
                \/ IdIncludes(obj.id, "medium")
  IN  SelectSeq(objectDefinitions, T)
largeObjects ==
  LET T(obj) == obj.sizeRange[2] > W(30) \/ IdIncludes(obj.id, "large")
                \/ IdIncludes(obj.id, "huge")
  IN  SelectSeq(objectDefinitions, T)

\* the category chosen by randomValue = c/800: < 0.6 small, < 0.9 medium
Category(c) ==
  IF c < 480 THEN smallObjects
  ELSE IF c < 720 THEN mediumObjects
  ELSE largeObjects

\* category[Math.floor(Math.random() * category.length)], with the fallback
\* to the whole list when the category is empty
PickDefinition(c, i, f) ==
  IF Len(Category(c)) > 0
  THEN Category(c)[((i * Len(Category(c))) \div 800) + 1]
  ELSE objectDefinitions[((f * Len(objectDefinitions)) \div 800) + 1]

\* size drawn for a definition: the square-root draw for the small category
PickSize(c, def, u) ==
  LET minSize == def.sizeRange[1]
      maxSize == Min(def.sizeRange[2], W(MAX_OBJECT_SIZE))
  IN  IF c < 480
      THEN minSize + (Sqrt(u) * (maxSize - minSize)) \div 800
      ELSE randomInRange(minSize, maxSize, u)

\* _createObject(type, size, position): the geometry class built for a type
\* (a sphere by default) and userData = {type, size}
_createObject(type, size, x, z) ==
  [type |-> type,
   geometry |-> CASE type = "box" -> "BoxGeometry"
                  [] type = "sphere" -> "SphereGeometry"
                  [] type = "cone" -> "ConeGeometry"
                  [] type = "cylinder" -> "CylinderGeometry"
                  [] OTHER -> "SphereGeometry",
   size |-> size, x |-> x, z |-> z]

\* twice the height of a body's centre: groundLevel -0.5 plus size/2 for a
\* box, plus size otherwise
Y2(body) == IF body.type = "box" THEN body.size - 20 ELSE 2 * body.size - 20

\* ten times the radius the allocator uses for a geometry type:
\* size * 0.7 for a box, size * 0.5 for a cone or cylinder, size otherwise
effectiveRadius(type, size) ==
  IF type = "box" THEN 7 * size
  ELSE IF type \in {"cone", "cylinder"} THEN 5 * size
  ELSE 10 * size

\* the coordinate limit taken from the map alone
maxCoordMapOnly(size) == W(MAP_SIZE) \div 2 - size

\* maxCoord = Math.min(PLAYABLE_AREA, MAP_SIZE / 2 - size)
maxCoord(size) == Min(W(PLAYABLE_AREA), W(MAP_SIZE) \div 2 - size)

\* squared horizontal distance
Dist2(x1, z1, x2, z2) == (x1 - x2) * (x1 - x2) + (z1 - z2) * (z1 - z2)

\* distance < r10 / 10, for a squared distance d2
Closer(d2, r10) == r10 > 0 /\ d2 < (r10 * r10 + 99) \div 100

\* the overlap test without the 0.5 buffer
overlapNoBuffer(type, size, x, z, obj) ==
  Closer(Dist2(x, z, obj.x, obj.z),
         effectiveRadius(type, size) + effectiveRadius(obj.type, obj.size))

\* the overlap test of one candidate position against one tracked body:
\* horizontal distance < effectiveRadius + objRadius + 0.5
overlap(type, size, x, z, obj) ==
  Closer(Dist2(x, z, obj.x, obj.z),
         effectiveRadius(type, size) + effectiveRadius(obj.type, obj.size) + 100)

\* the candidate overlaps some tracked body
hasOverlap(type, size, x, z, objs) ==
  \E i \in 1..Len(objs) : overlap(type, size, x, z, objs[i])

\* the largest n in lo..hi with n^3 <= v (bisection)
RECURSIVE CubeRoot(_, _, _)
CubeRoot(lo, hi, v) ==
  IF lo >= hi THEN lo
  ELSE LET mid == (lo + hi + 1) \div 2
       IN  IF mid * mid * mid <= v THEN CubeRoot(mid, hi, v)
           ELSE CubeRoot(lo, mid - 1, v)

\* integer bounds of a positive finite radius: CbrtLow(r) <= r <= CbrtHigh(r),
\* from 3 < pi < 22/7
CbrtLow(r) == CubeRoot(0, 1000, r.a \div 4 + (7 * r.b) \div 176)
CbrtHigh(r) == CubeRoot(0, 1000, (r.a + 3) \div 4 + (r.b + 23) \div 24 - 1) + 1

\* scene.getObjectByName(name): the player mesh is the only named candidate
getObjectByName(sphere, name) ==
  IF sphere.created /\ sphere.name = name
  THEN [found |-> TRUE, x |-> sphere.x, z |-> sphere.z]
  ELSE [found |-> FALSE, x |-> 0, z |-> 0]

\* distToPlayer < playerSize + effectiveRadius + 5, decided on the integer
\* bounds of the radius: "yes", "no", or "either" inside the rounding band
tooCloseToPlayer(type, size, x, z, playerPosition, playerSize) ==
  LET d2 == Dist2(x, z, playerPosition.x, playerPosition.z)
      e == effectiveRadius(type, size) + W(50)
  IN  IF Closer(d2, 10 * CbrtLow(playerSize) + e) THEN "yes"
      ELSE IF ~Closer(d2, 10 * CbrtHigh(playerSize) + e) THEN "no"
      ELSE "either"

\* -------------------------------------------------------------- Physics
\* checkCollisions: distance < playerRadius + objectRadius, where
\* objectRadius = userData.collisionRadius || userData.size is the size (no
\* body carries a collisionRadius) and the distance is taken in space with
\* the player resting on the ground (centre height = radius).  With N and D
\* as below the test is N < r * D; it is decided on the integer bounds of r.
mayCollide(px, pz, playerSize, obj) ==
  LET N == 4 * Dist2(px, pz, obj.x, obj.z) + Y2(obj) * Y2(obj)
           - 4 * obj.size * obj.size
      D == 4 * (2 * obj.size + Y2(obj))
      lo == D * CbrtLow(playerSize)
      hi == D * CbrtHigh(playerSize)
  IN  IF N < Min(lo, hi) THEN {TRUE}
      ELSE IF N >= (IF lo <= hi THEN hi ELSE lo) THEN {FALSE}
      ELSE {TRUE, FALSE}

\* object.userData.size < playerSize
smallerThanPlayer(obj, playerSize) ==
  IF isNaN(playerSize) THEN FALSE
  ELSE IF playerSize.k = "inf" THEN TRUE
  ELSE Sign(playerSize.a - 4 * obj.size * obj.size * obj.size, playerSize.b) > 0

\* ------------------------------------------------------- GameController
\* the volume with the cylinder formula applied to a cone as well
objectVolumeConeAsCylinder(obj) ==
  LET s3 == obj.size * obj.size * obj.size
  IN  CASE obj.geometry = "SphereGeometry" -> Fin(4 * s3, 0)
        [] obj.geometry = "BoxGeometry" -> Fin(0, 6 * s3)
        [] obj.geometry \in {"ConeGeometry", "CylinderGeometry"} -> Fin(6 * s3, 0)
        [] OTHER -> Fin(0, 3 * s3)

\* the volume computed for an absorbed body from its geometry class
objectVolume(obj) ==
  LET s3 == obj.size * obj.size * obj.size
  IN  CASE obj.geometry = "SphereGeometry" -> Fin(4 * s3, 0)
        [] obj.geometry = "BoxGeometry" -> Fin(0, 6 * s3)
        [] obj.geometry = "ConeGeometry" -> Fin(2 * s3, 0)
        [] obj.geometry = "CylinderGeometry" -> Fin(6 * s3, 0)
        [] OTHER -> Fin(0, 3 * s3)

\* if (isNaN(objectVolume) || objectVolume <= 0)
invalidVolume(v) == isNaN(v) \/ LeqZero(v)

\* the volume added as computed, with no default
usedVolumeAsComputed(v) == v

\* the volume that is added: 1.0 in place of an invalid one
usedVolume(v) == IF invalidVolume(v) THEN Fin(0, 6 * W(1) * W(1) * W(1)) ELSE v

\* Math.pow(this.sphereSize, 3) * Math.PI * (4/3)
currentVolume(r) == IF r.k = "fin" THEN Fin(r.a, r.b) ELSE r

\* Math.pow((3 * newVolume) / (4 * Math.PI), 1/3): NaN for a negative base
newSizeOf(v) ==
  IF v.k # "fin" THEN v
  ELSE IF Sign(v.a, v.b) < 0 THEN NaN
  ELSE Fin(v.a, v.b)

\* if (isNaN(newSize) || newSize <= 0): the guard of _handleCollisions and
\* of growSphere
invalidSize(r) == isNaN(r) \/ LeqZero(r)

\* growSphere that never stores the new size
growSphereNotStored(sphereSize, newSize) == sphereSize

\* growSphere(newSize): the new value of this.sphereSize
growSphere(sphereSize, newSize) ==
  IF invalidSize(newSize) THEN sphereSize ELSE newSize

\* removeObject that leaves the body in the tracked list
removeObjectKept(objs, obj) == objs

\* removeObject(object): splice the body out of the tracked list
removeObject(objs, obj) ==
  IF \E i \in 1..Len(objs) : objs[i] = obj
  THEN LET i == CHOOSE j \in 1..Len(objs) : objs[j] = obj
       IN  SubSeq(objs, 1, i - 1) \o SubSeq(objs, i + 1, Len(objs))
  ELSE objs

\* the cull test on the distance alone
isCulledWhateverSize(obj, playerSize) ==
  4 * (obj.x * obj.x + obj.z * obj.z) + Y2(obj) * Y2(obj)
    > 4 * W(PLAYABLE_AREA) * W(PLAYABLE_AREA)

\* _cullTinyObjects(playerSize): drop the bodies smaller than a tenth of the
\* player and than 5 that lie further than PLAYABLE_AREA from the origin
\* (position.lengthSq() counts the height too)
isCulled(obj, playerSize) ==
  /\ obj.size * obj.size * obj.size <= 500000
  /\ Sign(playerSize.a - 4000 * obj.size * obj.size * obj.size, playerSize.b) > 0
  /\ obj.size < W(5)
  /\ 4 * (obj.x * obj.x + obj.z * obj.z) + Y2(obj) * Y2(obj)
       > 4 * W(PLAYABLE_AREA) * W(PLAYABLE_AREA)
_cullTinyObjects(objs, playerSize) ==
  LET Keep(obj) == ~isCulled(obj, playerSize)
  IN  SelectSeq(objs, Keep)

\* where the player can have been steered to when a frame begins
PlayerPositions == { <<0, 0>>, <<W(1), 0>> }

VARIABLES
  config,            \* window.GAME_CONFIG of this session
  pc,                \* "menu", "spawnLoop", "placing", "frame", "absorb"
  isRunning,         \* GameController.isRunning
  sphereSize,        \* GameController.sphereSize
  playerSphere,      \* the player mesh: created, name, x, z
  objects,           \* ObjectManager.objects
  itemsAbsorbed,     \* HUDController.itemsAbsorbed
  mode,              \* which spawn loop runs: "initial", "maintain", "none"
  count,             \* the loop's target: count / objectsToSpawn
  successfulSpawns,  \* the loop's successfulSpawns
  totalAttempts,     \* the loop's totalAttempts
  cand,              \* the candidate of the running spawnRandomObject call
  attempt,           \* the attempt counter of _findNonOverlappingPosition
  collisions,        \* what is left of the list _handleCollisions walks
  placed,            \* history: the outcome of the last spawnRandomObject
  last,              \* history: the last body _handleCollisions processed
  absorbedVolume,    \* history: the shape volumes of the absorbed bodies
  scan,              \* history: what checkCollisions saw and reported this tick
  culled,            \* history: the bodies the last _cullTinyObjects removed
  scheduled,         \* invocations of _gameLoop pending: the call that ends
                     \* start() or a requestAnimationFrame callback
  barrier,           \* the call of checkCollisions on a list of barrier
                     \* meshes: player, velocity, the list, what it reported
  camera,            \* CameraController: the fov, distance and height it holds
  motion,            \* the player along z: position, velocity, time played, key history
  draw               \* the last size drawn for a small definition, with the uniform draw

vars == << config, pc, isRunning, sphereSize, playerSphere, objects,
           itemsAbsorbed, mode, count, successfulSpawns, totalAttempts, cand,
           attempt, collisions, placed, last, absorbedVolume, scan, culled,
           scheduled, barrier, camera, motion, draw >>

\* window.GAME_CONFIG with a count left out: reading the parameter gives
\* undefined
MissingConfigs ==
  { [MAX_OBJECTS_COUNT |-> MaxObjects, RESPAWN_OBJECTS |-> TRUE],
    [INITIAL_OBJECTS_COUNT |-> MaxObjects, RESPAWN_OBJECTS |-> TRUE] }

present(cfg, key) == key \in DOMAIN cfg

\* const count = window.GAME_CONFIG.INITIAL_OBJECTS_COUNT.  With count
\* undefined, successfulSpawns < count and totalAttempts < count * 2 (NaN) are
\* false for every value of the counters, as they are with 0 for counters
\* that are never negative: 0 stands for it
initialCount(cfg) ==
  IF present(cfg, "INITIAL_OBJECTS_COUNT") THEN cfg.INITIAL_OBJECTS_COUNT ELSE 0

\* objectsToSpawn = Math.min(MAX_OBJECTS_COUNT, INITIAL_OBJECTS_COUNT) -
\* objects.length; Math.min with an undefined argument is NaN, and the loop
\* bounded by NaN never runs
objectsToSpawn(cfg, objs) ==
  IF present(cfg, "MAX_OBJECTS_COUNT") /\ present(cfg, "INITIAL_OBJECTS_COUNT")
  THEN Min(cfg.MAX_OBJECTS_COUNT, cfg.INITIAL_OBJECTS_COUNT) - Len(objs)
  ELSE 0

\* ---- CameraController ----
\* Radii are in world units, the field of view in tenths of a degree, the
\* distance and the height of the camera in thousandths of a unit.

MAX_SCREEN_PERCENTAGE == 30
CAMERA_ZOOM_RATE_10 == 15

\* Math.tan(fovRadians / 2) in thousandths, for the fields of view that the
\* radii of CameraSizes give
TanHalfFov(fov) ==
  CASE fov = 600 -> 577 [] fov = 702 -> 703 [] fov = 710 -> 713
    [] fov = 720 -> 727 [] fov = 730 -> 740 [] fov = 740 -> 754
    [] fov = 750 -> 767 [] fov = 800 -> 839 [] fov = 850 -> 916
    [] fov = 900 -> 1000 [] fov = 950 -> 1091 [] fov = 1000 -> 1192

\* Math.max(1, PLAYABLE_AREA / 400), in thousandths
playableAreaScale ==
  IF PLAYABLE_AREA * 1000 > 400 * 1000 THEN (PLAYABLE_AREA * 1000) \div 400
  ELSE 1000

\* the variant in which the distance shrinks as the sphere grows
cameraDistanceShrinking(size, fov) == 1000000 \div size

\* baseDistance * zoomRate * playableAreaScale, with baseDistance =
\* sphereSize / (maxScreenPercentage / 100) / Math.tan(fovRadians / 2)
cameraDistance(size, fov) ==
  (((((size * 100 * CAMERA_ZOOM_RATE_10 * 1000)
        \div (MAX_SCREEN_PERCENTAGE * 10)) * 1000) \div TanHalfFov(fov))
     * playableAreaScale) \div 1000

\* Math.max(60, Math.min(100, baseFOV - 5 + sphereSize * 0.2))
targetFOV(size) ==
  LET t == 750 - 50 + size * 2
  IN  IF t < 600 THEN 600 ELSE IF t > 1000 THEN 1000 ELSE t

\* the argument that is NaN
None == -1000000

\* updateCameraForSize(sphereSize): a size that is no number (None here) or
\* not positive is replaced by 1; the distance is computed with the field of
\* view the camera has, then the height, then the field of view is set
updateCameraForSize(cam, radius) ==
  LET size == IF radius = None \/ radius <= 0 THEN 1 ELSE radius
      distance == cameraDistance(size, cam.fov)
  IN  [fov |-> targetFOV(size), distance |-> distance,
       height |-> distance \div 2, sphereSize |-> size, fovBefore |-> cam.fov]

\* new CameraController(1): a PerspectiveCamera of 75 degrees, distance 20,
\* height 10, then updateCameraForSize(initialSphereSize)
newCameraController ==
  updateCameraForSize([fov |-> 750, distance |-> 20000, height |-> 10000,
                       sphereSize |-> 1, fovBefore |-> 750], 1)

\* ---- the player's motion ----
\* One axis, the camera at angle 0 and the down key: positions and velocities
\* in millionths of a unit, times in milliseconds.

BALL_SPEED == 10
FRICTION_100 == 95

\* the player as _createPlayerSphere leaves it: at the origin, velocity 0
atRest == [z |-> 0, vz |-> 0, t |-> 0, held |-> TRUE, ticks |-> 0]

\* InputHandler.update(delta): the velocity is reset, the key adds
\* moveSpeed * delta, a momentum above 0.01 comes back damped by 0.8, and
\* _applyPhysics adds the velocity to the position
update(m, key, delta) ==
  LET input == IF key THEN BALL_SPEED * delta * 1000 ELSE 0
      momentum == IF Abs(m.vz) > 10000 THEN (m.vz * 8) \div 10 ELSE 0
      velocity == input + momentum
  IN  [m EXCEPT !.vz = velocity, !.z = m.z + velocity]

\* Physics.applyPhysics(playerSphere, delta) on the ground: friction, then
\* position += velocity * delta
applyPhysics(m, delta) ==
  LET velocity == (m.vz * FRICTION_100) \div 100
  IN  [m EXCEPT !.vz = velocity, !.z = m.z + (velocity * delta) \div 1000]

\* no size has been drawn
NoDraw == [id |-> "none", u |-> 0, minSize |-> 0, maxSize |-> 0, size |-> 0,
           uniform |-> 0]

NoCand == [type |-> "none", size |-> 0]
NoPlaced == [result |-> "none", type |-> "none", size |-> 0, x |-> 0, z |-> 0,
             attempts |-> 0, mode |-> "none", before |-> 0]
NoLast == [event |-> "none", obj |-> _createObject("none", 0, 0, 0),
           objectVolume |-> Fin(0, 0), newSize |-> Fin(0, 0),
           before |-> Fin(0, 0), inList |-> FALSE, itemsBefore |-> 0,
           lenBefore |-> 0]

\* no scan yet; a tick is "scanned" between checkCollisions and its end; once
\* it has requested the next frame it is "done" if nothing was absorbed and
\* "maintained" (lists dropped) if _handleCollisions has run
NoScan == [tick |-> "none", x |-> 0, z |-> 0, absorbable |-> << >>,
           blocking |-> << >>]

\* no list with a barrier in it has been given to checkCollisions
NoBarrier == [pc |-> "idle", x |-> 0, z |-> 0, vx |-> 0, vz |-> 0,
              radius |-> 0, objects |-> << >>, barrierCollisions |-> << >>]

\* new GameController(): sphereSize = 1.0, isRunning = false, nothing spawned
Init ==
  /\ config \in Configs
  /\ pc = "menu"
  /\ isRunning = FALSE
  /\ sphereSize = Radius(W(1))
  /\ playerSphere = [created |-> FALSE, name |-> "", x |-> 0, z |-> 0]
  /\ objects = << >>
  /\ itemsAbsorbed = 0
  /\ mode = "none"
  /\ count = 0
  /\ successfulSpawns = 0
  /\ totalAttempts = 0
  /\ cand = NoCand
  /\ attempt = 0
  /\ collisions = << >>
  /\ placed = NoPlaced
  /\ last = NoLast
  /\ absorbedVolume = Fin(0, 0)
  /\ scan = NoScan
  /\ culled = << >>
  /\ scheduled = 0
  /\ barrier = NoBarrier
  /\ camera = newCameraController
  /\ motion = atRest
  /\ draw = NoDraw

\* start(): _createPlayerSphere puts an unnamed mesh at the origin, then
\* spawnInitialObjects(this.sphereSize) begins its loop
start ==
  /\ pc = "menu"
  /\ playerSphere' = [created |-> TRUE, name |-> "", x |-> 0, z |-> 0]
  /\ mode' = "initial"
  /\ count' = initialCount(config)
  /\ successfulSpawns' = 0
  /\ totalAttempts' = 0
  /\ pc' = "spawnLoop"
  /\ UNCHANGED << config, isRunning, sphereSize, objects, itemsAbsorbed, cand,
                  attempt, collisions, placed, last, absorbedVolume >>
  /\ UNCHANGED << scan, culled, scheduled, barrier, camera, motion, draw >>

\* the early exit with the rule of the initial spawning in both loops
bailOutInitialRuleOnly ==
  totalAttempts >= 100 /\ 10 * successfulSpawns < totalAttempts

\* the early exit at the end of an iteration: spawnInitialObjects breaks at
\* totalAttempts >= 100 && successfulSpawns < totalAttempts * 0.1,
\* checkAndSpawnObjects at totalAttempts >= 10 && successfulSpawns === 0
bailOut ==
  IF mode = "initial"
  THEN totalAttempts >= 100 /\ 10 * successfulSpawns < totalAttempts
  ELSE totalAttempts >= 10 /\ successfulSpawns = 0

\* the loop condition without the attempt ceiling
loopContinuesUncapped ==
  /\ successfulSpawns < count
  /\ ~bailOut

\* while (successfulSpawns < count && totalAttempts < maxSpawnAttempts)
loopContinues ==
  /\ successfulSpawns < count
  /\ totalAttempts < count * 2
  /\ ~bailOut

\* the positions one attempt can draw for a candidate of the given size
candidatePositions(size) ==
  { [x |-> randomInRange(-maxCoord(size), maxCoord(size), ux),
     z |-> randomInRange(-maxCoord(size), maxCoord(size), uz)] :
    ux \in XDraws, uz \in ZDraws }

\* the verdicts one attempt can reach on a drawn position: rejected when too
\* close to the player (tested only when the scene has a mesh named
\* 'playerSphere') or when it overlaps a tracked body
isRejected(type, size, pos, sphere, playerSize, objs) ==
  LET playerPosition == getObjectByName(sphere, "playerSphere")
      nearPlayer ==
        IF playerPosition.found
        THEN tooCloseToPlayer(type, size, pos.x, pos.z, playerPosition, playerSize)
        ELSE "no"
  IN  IF nearPlayer = "yes" \/ hasOverlap(type, size, pos.x, pos.z, objs)
      THEN {TRUE}
      ELSE IF nearPlayer = "either" THEN {TRUE, FALSE}
      ELSE {FALSE}

\* what the attempt loop can return from its attempt number k on: a position
\* accepted at this attempt, or, if this attempt can reject its draw, whatever
\* the later attempts return; null after MAX_ATTEMPTS
RECURSIVE attemptsFrom(_, _, _)
attemptsFrom(k, accepted, canReject) ==
  IF k >= MAX_ATTEMPTS
  THEN { [found |-> FALSE, x |-> 0, z |-> 0] }
  ELSE { [found |-> TRUE, x |-> p.x, z |-> p.z] : p \in accepted }
       \cup (IF canReject THEN attemptsFrom(k + 1, accepted, canReject) ELSE {})

\* _findNonOverlappingPosition(size, geometryType, playerSize) as one call
findPosition(type, size, sphere, playerSize, objs) ==
  LET drawn == candidatePositions(size)
      accepted == { p \in drawn :
                    FALSE \in isRejected(type, size, p, sphere, playerSize, objs) }
      rejected == { p \in drawn :
                    TRUE \in isRejected(type, size, p, sphere, playerSize, objs) }
  IN  attemptsFrom(0, accepted, rejected # {})

\* the ceiling test off by one
atCeilingOffByOne(objs, cfg) == Len(objs) > cfg.MAX_OBJECTS_COUNT

\* if (this.objects.length >= window.GAME_CONFIG.MAX_OBJECTS_COUNT)
atCeiling(objs, cfg) ==
  /\ present(cfg, "MAX_OBJECTS_COUNT")
  /\ Len(objs) >= cfg.MAX_OBJECTS_COUNT

\* spawnRandomObject at the ceiling: returns null, the loop counts an attempt
spawnAtCeiling ==
  /\ pc = "spawnLoop"
  /\ loopContinues
  /\ atCeiling(objects, config)
  /\ totalAttempts' = totalAttempts + 1
  /\ placed' = [NoPlaced EXCEPT !.result = "null", !.mode = mode,
                                !.before = Len(objects)]
  /\ UNCHANGED << config, pc, isRunning, sphereSize, playerSphere, objects,
                  itemsAbsorbed, mode, count, successfulSpawns, cand, attempt,
                  collisions, last, absorbedVolume >>
  /\ UNCHANGED << scan, culled, scheduled, barrier, camera, motion, draw >>

\* the candidates spawnRandomObject can draw: a definition and a size
candidates ==
  UNION { UNION { { [type |-> PickDefinition(c, i, f).geometryType,
                     size |-> PickSize(c, PickDefinition(c, i, f), u)] :
                    u \in (IF c < 480 THEN SqrtDraws ELSE SizeDraws) } :
                  f \in (IF Len(Category(c)) > 0 THEN {0} ELSE IndexDraws) } :
          c \in CategoryDraws, i \in IndexDraws }

\* spawnRandomObject below the ceiling, as one call: draw the candidate, look
\* for a position; a body is created and tracked only when one is found
spawnRandomObject ==
  /\ pc = "spawnLoop"
  /\ loopContinues
  /\ ~atCeiling(objects, config)
  /\ \E c \in candidates :
       \E position \in findPosition(c.type, c.size, playerSphere, sphereSize,
                                    objects) :
         IF position.found
         THEN /\ objects' = Append(objects, _createObject(c.type, c.size,
                                                          position.x, position.z))
              /\ successfulSpawns' = successfulSpawns + 1
              /\ placed' = [result |-> "placed", type |-> c.type, size |-> c.size,
                            x |-> position.x, z |-> position.z, attempts |-> 0,
                            mode |-> mode, before |-> Len(objects)]
         ELSE /\ placed' = [NoPlaced EXCEPT !.result = "null", !.mode = mode,
                                            !.before = Len(objects)]
              /\ UNCHANGED << objects, successfulSpawns >>
  /\ totalAttempts' = totalAttempts + 1
  /\ UNCHANGED << config, pc, isRunning, sphereSize, playerSphere,
                  itemsAbsorbed, mode, count, cand, attempt, collisions, last,
                  absorbedVolume >>
  /\ UNCHANGED << scan, culled, scheduled, barrier, camera, motion, draw >>

\* ---- the same call taken one attempt at a time
\* spawnRandomObject up to the call of _findNonOverlappingPosition
beginSpawn ==
  /\ pc = "spawnLoop"
  /\ loopContinues
  /\ ~atCeiling(objects, config)
  /\ cand' \in candidates
  /\ attempt' = 0
  /\ pc' = "placing"
  /\ placed' = NoPlaced
  /\ UNCHANGED << config, isRunning, sphereSize, playerSphere, objects,
                  itemsAbsorbed, mode, count, successfulSpawns, totalAttempts,
                  collisions, last, absorbedVolume >>
  /\ UNCHANGED << scan, culled, scheduled, barrier, camera, motion, draw >>

\* one pass of the attempt loop: an accepted position is returned and
\* spawnRandomObject creates and tracks the body
tryPosition ==
  /\ pc = "placing"
  /\ attempt < MAX_ATTEMPTS
  /\ \E pos \in candidatePositions(cand.size) :
       \E rejected \in isRejected(cand.type, cand.size, pos, playerSphere,
                                  sphereSize, objects) :
         IF rejected
         THEN /\ attempt' = attempt + 1
              /\ UNCHANGED << pc, objects, successfulSpawns, totalAttempts,
                              placed, cand >>
         ELSE /\ objects' = Append(objects, _createObject(cand.type, cand.size,
                                                          pos.x, pos.z))
              /\ successfulSpawns' = successfulSpawns + 1
              /\ totalAttempts' = totalAttempts + 1
              /\ placed' = [result |-> "placed", type |-> cand.type,
                            size |-> cand.size, x |-> pos.x, z |-> pos.z,
                            attempts |-> attempt + 1, mode |-> mode,
                            before |-> Len(objects)]
              /\ pc' = "spawnLoop"
              /\ cand' = NoCand
              /\ attempt' = 0
  /\ UNCHANGED << config, isRunning, sphereSize, playerSphere, itemsAbsorbed,
                  mode, count, collisions, last, absorbedVolume >>
  /\ UNCHANGED << scan, culled, scheduled, barrier, camera, motion, draw >>

\* the attempt loop ran out: _findNonOverlappingPosition returns null and
\* spawnRandomObject returns null without adding a body
positionNotFound ==
  /\ pc = "placing"
  /\ attempt >= MAX_ATTEMPTS
  /\ totalAttempts' = totalAttempts + 1
  /\ placed' = [NoPlaced EXCEPT !.result = "null", !.type = cand.type,
                                !.size = cand.size, !.attempts = attempt,
                                !.mode = mode, !.before = Len(objects)]
  /\ pc' = "spawnLoop"
  /\ cand' = NoCand
  /\ attempt' = 0
  /\ UNCHANGED << config, isRunning, sphereSize, playerSphere, objects,
                  itemsAbsorbed, mode, count, successfulSpawns, collisions,
                  last, absorbedVolume >>
  /\ UNCHANGED << scan, culled, scheduled, barrier, camera, motion, draw >>

\* spawnInitialObjects returns; start() sets isRunning and calls _gameLoop
finishStart ==
  /\ pc = "spawnLoop"
  /\ mode = "initial"
  /\ ~loopContinues
  /\ isRunning' = TRUE
  /\ mode' = "none"
  /\ count' = 0
  /\ successfulSpawns' = 0
  /\ totalAttempts' = 0
  /\ placed' = NoPlaced
  /\ pc' = "frame"
  /\ UNCHANGED << config, sphereSize, playerSphere, objects, itemsAbsorbed,
                  cand, attempt, collisions, last, absorbedVolume >>
  /\ scheduled' = scheduled + 1
  /\ UNCHANGED << scan, culled, barrier, camera, motion, draw >>

\* the loop of checkAndSpawnObjects is over: _cullTinyObjects(playerSize),
\* then the frame finishes and the next one is requested
finishMaintain ==
  /\ pc = "spawnLoop"
  /\ mode = "maintain"
  /\ ~loopContinues
  /\ objects' = _cullTinyObjects(objects, sphereSize)
  /\ culled' = LET Removed(obj) == isCulled(obj, sphereSize)
               IN  SelectSeq(objects, Removed)
  /\ mode' = "none"
  /\ count' = 0
  /\ successfulSpawns' = 0
  /\ totalAttempts' = 0
  /\ placed' = NoPlaced
  /\ scan' = [NoScan EXCEPT !.tick = "maintained"]
  /\ scheduled' = scheduled + 1
  /\ barrier' = barrier
  /\ camera' = camera
  /\ motion' = motion
  /\ draw' = draw
  /\ pc' = "frame"
  /\ UNCHANGED << config, isRunning, sphereSize, playerSphere, itemsAbsorbed,
                  cand, attempt, collisions, last, absorbedVolume >>

\* the shape volume of a body by its type: sphere (4/3) pi s^3, cube s^3,
\* cone (1/3) pi s^2 (2s), cylinder pi s^2 (2s), anything else 0.5 s^3
ShapeVolume(type, size) ==
  LET s3 == size * size * size
  IN  CASE type = "sphere" -> Fin(4 * s3, 0)
        [] type = "box" -> Fin(0, 6 * s3)
        [] type = "cone" -> Fin(2 * s3, 0)
        [] type = "cylinder" -> Fin(6 * s3, 0)
        [] OTHER -> Fin(0, 3 * s3)

\* the bodies checkCollisions returns: those that overlap the player and are
\* smaller than it, in list order
checkCollisions(objs, hit, playerSize) ==
  LET Absorbable(obj) ==
        /\ \E i \in 1..Len(objs) : objs[i] = obj /\ hit[i]
        /\ smallerThanPlayer(obj, playerSize)
  IN  SelectSeq(objs, Absorbable)

\* integer bounds of a square root: ISqrt(n) <= sqrt(n) <= ISqrtUp(n)
ISqrt(n) == CHOOSE m \in 0..400 : m * m <= n /\ n < (m + 1) * (m + 1)
ISqrtUp(n) == IF ISqrt(n) * ISqrt(n) = n THEN ISqrt(n) ELSE ISqrt(n) + 1

\* the bodies checkCollisions hands to handleLargerObjectCollisions: those
\* that overlap the player and are not smaller than it
largerCollisions(objs, hit, playerSize) ==
  LET Larger(obj) ==
        /\ \E i \in 1..Len(objs) : objs[i] = obj /\ hit[i]
        /\ ~smallerThanPlayer(obj, playerSize)
  IN  SelectSeq(objs, Larger)

\* the lengths (model units) by which one blocking body can move the player
\* along an axis on which their centres differ by d: the component of
\* pushDirection * Math.min(overlap * 0.5, 0.2).  The direction is the
\* normalised difference of the centres in space and the overlap is taken
\* with the distance in space, so the length is known between integer
\* bounds: at most 0.2, and at least 0.2 * d / distance when the cap applies.
correctionSteps(d, p, playerSize, obj) ==
  IF d = 0 THEN {0}
  ELSE LET dy2 == IF Abs(2 * CbrtLow(playerSize) - Y2(obj))
                       >= Abs(2 * CbrtHigh(playerSize) - Y2(obj))
                    THEN Abs(2 * CbrtLow(playerSize) - Y2(obj))
                    ELSE Abs(2 * CbrtHigh(playerSize) - Y2(obj))
           distHigh == ISqrtUp(Dist2(p.x, p.z, obj.x, obj.z)
                               + (dy2 * dy2 + 3) \div 4)
           capped == CbrtLow(playerSize) + obj.size - distHigh >= 8
       IN  IF capped /\ distHigh > 0
           THEN ((4 * Abs(d)) \div distHigh) .. 4
           ELSE 0 .. 4

\* handleLargerObjectCollisions: the positions the player can be left at
\* after every blocking body of the list has pushed it in turn, each from
\* where the previous push has left it
RECURSIVE handleLargerObjectCollisions(_, _, _)
handleLargerObjectCollisions(positions, largerList, playerSize) ==
  IF largerList = << >> THEN positions
  ELSE LET object == Head(largerList)
           pushed ==
             UNION { { [x |-> p.x + Sgn(p.x - object.x) * mx,
                        z |-> p.z + Sgn(p.z - object.z) * mz] :
                       mx \in correctionSteps(p.x - object.x, p, playerSize, object),
                       mz \in correctionSteps(p.z - object.z, p, playerSize, object) } :
                     p \in positions }
       IN  handleLargerObjectCollisions(pushed, Tail(largerList), playerSize)

\* the variant that shoves every blocking body a step along x
bodiesAfterResponseShoved(objs, largerList) ==
  [i \in 1..Len(objs) |->
     IF \E k \in 1..Len(largerList) : largerList[k] = objs[i]
     THEN [objs[i] EXCEPT !.x = @ + 1] ELSE objs[i]]

\* the bodies after handleLargerObjectCollisions: it writes to
\* playerSphere.userData.velocity and playerSphere.position only
bodiesAfterResponse(objs, largerList) == objs

\* the variant that never returns at the top
returnsAtTopNever == FALSE

\* if (!this.isRunning) return;
returnsAtTop == ~isRunning

\* the variant that hands every list to _handleCollisions
hasCollisionsAlways(list) == TRUE

\* if (collisions.length > 0): only a tick whose scan reported an absorbable
\* body goes on to _handleCollisions
hasCollisions(list) == list # << >>

\* _gameLoop: one frame.  With isRunning off it returns at once.  Otherwise
\* the input has moved the player; checkCollisions lists the absorbable
\* bodies it overlaps and lets the blocking ones push the player; a non-empty
\* list is handed to _handleCollisions, otherwise the frame ends and the next
\* is requested.
_gameLoop ==
  /\ pc = "frame"
  /\ scheduled > 0
  /\ IF returnsAtTop
     THEN /\ scheduled' = scheduled - 1
          /\ UNCHANGED << config, pc, isRunning, sphereSize, playerSphere,
                          objects, itemsAbsorbed, mode, count, successfulSpawns,
                          totalAttempts, cand, attempt, collisions, placed,
                          last, absorbedVolume, scan, culled, barrier, camera, motion, draw >>
     ELSE /\ itemsAbsorbed < MaxAbsorbed
          /\ \E pos \in PlayerPositions :
               \E hit \in [1..Len(objects) -> BOOLEAN] :
                 /\ \A i \in 1..Len(objects) :
                      hit[i] \in mayCollide(pos[1], pos[2], sphereSize, objects[i])
                 /\ collisions' = checkCollisions(objects, hit, sphereSize)
                 /\ scan' = [tick |-> IF hasCollisions(collisions') THEN "scanned"
                                      ELSE "done",
                             x |-> pos[1], z |-> pos[2],
                             absorbable |-> collisions',
                             blocking |-> largerCollisions(objects, hit, sphereSize)]
                 /\ \E p \in handleLargerObjectCollisions(
                              { [x |-> pos[1], z |-> pos[2]] },
                              largerCollisions(objects, hit, sphereSize),
                              sphereSize) :
                      playerSphere' = [playerSphere EXCEPT !.x = p.x, !.z = p.z]
                 /\ objects' = bodiesAfterResponse(
                                 objects,
                                 largerCollisions(objects, hit, sphereSize))
          /\ pc' = IF hasCollisions(collisions') THEN "absorb" ELSE "frame"
          /\ scheduled' = IF hasCollisions(collisions') THEN scheduled - 1
                          ELSE scheduled
          /\ placed' = NoPlaced
          /\ last' = NoLast
          /\ culled' = << >>
          /\ UNCHANGED << config, isRunning, sphereSize, itemsAbsorbed,
                          mode, count, successfulSpawns, totalAttempts, cand,
                          attempt, absorbedVolume, barrier, camera, motion, draw >>

\* an element of the list that is no mesh: reading object.geometry throws a
\* TypeError in the first statement of the try block
NullBody == [type |-> "null", size |-> 0, x |-> 0, z |-> 0,
             geometry |-> "undefined"]
throws(obj) == obj.geometry = "undefined"

\* the variant in which an error ends the whole forEach
afterPassAbortOnError(list, event) ==
  IF event = "absorbed" THEN Tail(list) ELSE << >>

\* what is left for collisions.forEach after one call of its callback: the
\* return of the size check and the catch block end that call only
afterPass(list, event) == Tail(list)

\* _handleCollisions, one pass of collisions.forEach
_handleCollisions ==
  /\ pc = "absorb"
  /\ collisions # << >>
  /\ LET object == Head(collisions)
         volume == usedVolume(objectVolume(object))
         newVolume == Plus(currentVolume(sphereSize), volume)
         newSize == newSizeOf(newVolume)
         seen == [event |-> "skipped", obj |-> object,
                  objectVolume |-> objectVolume(object), newSize |-> newSize,
                  before |-> sphereSize,
                  inList |-> \E i \in 1..Len(objects) : objects[i] = object,
                  itemsBefore |-> itemsAbsorbed, lenBefore |-> Len(objects)]
     IN  IF throws(object)
         THEN /\ last' = [event |-> "threw", obj |-> object,
                          objectVolume |-> Fin(0, 0), newSize |-> Fin(0, 0),
                          before |-> sphereSize,
                          inList |-> \E i \in 1..Len(objects) :
                                       objects[i] = object,
                          itemsBefore |-> itemsAbsorbed,
                          lenBefore |-> Len(objects)]
              /\ UNCHANGED << sphereSize, objects, itemsAbsorbed,
                              absorbedVolume >>
         ELSE IF invalidSize(newSize)
         THEN /\ last' = seen
              /\ UNCHANGED << sphereSize, objects, itemsAbsorbed,
                              absorbedVolume >>
         ELSE /\ sphereSize' = growSphere(sphereSize, newSize)
              /\ objects' = removeObject(objects, object)
              /\ itemsAbsorbed' = itemsAbsorbed + 1
              /\ absorbedVolume' =
                   Plus(absorbedVolume, ShapeVolume(object.type, object.size))
              /\ last' = [seen EXCEPT !.event = "absorbed"]
  /\ collisions' = afterPass(collisions, last'.event)
  /\ UNCHANGED << config, pc, isRunning, playerSphere, mode, count,
                  successfulSpawns, totalAttempts, cand, attempt, placed >>
  /\ UNCHANGED << scan, culled, scheduled, barrier, camera, motion, draw >>

\* after the forEach: _updateHUD(), then checkAndSpawnObjects(sphereSize),
\* which returns at once when RESPAWN_OBJECTS is off and otherwise starts its
\* loop for desiredObjectCount - objects.length bodies.  _updateHUD hands
\* this.sphereSize to HUDController.updateSphereSize, which corrects and
\* rounds its own argument only: this.sphereSize is not written.  With the
\* flag off the call returns before the cull, _gameLoop goes on to the camera
\* and the renderer and requests the next frame.
checkAndSpawnObjects ==
  /\ pc = "absorb"
  /\ collisions = << >>
  /\ IF config.RESPAWN_OBJECTS
     THEN /\ mode' = "maintain"
          /\ count' = objectsToSpawn(config, objects)
          /\ successfulSpawns' = 0
          /\ totalAttempts' = 0
          /\ pc' = "spawnLoop"
          /\ UNCHANGED << scan, scheduled >>
     ELSE /\ pc' = "frame"
          /\ scan' = [NoScan EXCEPT !.tick = "maintained"]
          /\ scheduled' = scheduled + 1
          /\ UNCHANGED << mode, count, successfulSpawns, totalAttempts >>
  /\ last' = NoLast
  /\ culled' = culled
  /\ barrier' = barrier
  /\ camera' = camera
  /\ motion' = motion
  /\ draw' = draw
  /\ UNCHANGED << config, isRunning, sphereSize, playerSphere, objects,
                  itemsAbsorbed, cand, attempt, collisions, placed,
                  absorbedVolume >>

\* the game is between two ticks: one has ended and requested the next
betweenTicks == pc = "frame" /\ scan.tick \in {"done", "maintained"}

\* the flag is cleared from outside (pause, end of the game): an event
\* handler, which runs between two callbacks of the frame scheduler
clearRunning ==
  /\ isRunning
  /\ betweenTicks
  /\ isRunning' = FALSE
  /\ UNCHANGED << config, pc, sphereSize, playerSphere, objects, itemsAbsorbed,
                  mode, count, successfulSpawns, totalAttempts, cand, attempt,
                  collisions, placed, last, absorbedVolume, scan, culled,
                  scheduled, barrier, camera, motion, draw >>

Next ==
  \/ start
  \/ spawnAtCeiling
  \/ spawnRandomObject
  \/ finishStart
  \/ finishMaintain
  \/ _gameLoop
  \/ _handleCollisions
  \/ checkAndSpawnObjects

Spec == Init /\ [][Next]_vars

\* the game with a pause: the flag may be cleared between any two ticks
NextStop == Next \/ clearRunning

SpecStop == Init /\ [][NextStop]_vars

\* the game started with any configuration, complete or not: nothing between
\* the page load and start() reads the counts
InitStartup ==
  /\ config \in Configs \cup MissingConfigs
  /\ pc = "menu"
  /\ isRunning = FALSE
  /\ sphereSize = Radius(W(1))
  /\ playerSphere = [created |-> FALSE, name |-> "", x |-> 0, z |-> 0]
  /\ objects = << >>
  /\ itemsAbsorbed = 0
  /\ mode = "none"
  /\ count = 0
  /\ successfulSpawns = 0
  /\ totalAttempts = 0
  /\ cand = NoCand
  /\ attempt = 0
  /\ collisions = << >>
  /\ placed = NoPlaced
  /\ last = NoLast
  /\ absorbedVolume = Fin(0, 0)
  /\ scan = NoScan
  /\ culled = << >>
  /\ scheduled = 0
  /\ barrier = NoBarrier
  /\ camera = newCameraController
  /\ motion = atRest
  /\ draw = NoDraw

SpecStartup == InitStartup /\ [][Next]_vars

\* The start of a session with _findNonOverlappingPosition taken one attempt
\* at a time.
NextAttempts ==
  \/ start
  \/ spawnAtCeiling
  \/ beginSpawn
  \/ tryPosition
  \/ positionNotFound
  \/ finishStart

SpecAttempts == Init /\ [][NextAttempts]_vars

\* ---- _handleCollisions on its own, called with any list of tracked bodies
\* and any value of this.sphereSize
HandlerBodies ==
  { _createObject(t, s, 0, 0) :
    t \in {"sphere", "box", "cone", "cylinder"}, s \in {-10, 0, 10} }
  \cup { [_createObject("torus", s, 0, 0) EXCEPT !.geometry = "TorusGeometry"] :
         s \in {-10, 0, 10} }

HandlerSizes == { Radius(W(1)), Radius(-W(1)), Radius(-10), NaN, Infinity }

InitHandler ==
  /\ config \in Configs
  /\ pc = "absorb"
  /\ isRunning = TRUE
  /\ sphereSize \in HandlerSizes
  /\ playerSphere = [created |-> TRUE, name |-> "", x |-> 0, z |-> 0]
  /\ \E b1 \in HandlerBodies, b2 \in HandlerBodies :
       objects \in { << b1 >>, << b1, [b2 EXCEPT !.x = W(2)] >> }
  /\ collisions = objects
  /\ itemsAbsorbed = 0
  /\ mode = "none"
  /\ count = 0
  /\ successfulSpawns = 0
  /\ totalAttempts = 0
  /\ cand = NoCand
  /\ attempt = 0
  /\ placed = NoPlaced
  /\ last = NoLast
  /\ absorbedVolume = Fin(0, 0)
  /\ scan = [NoScan EXCEPT !.tick = "scanned", !.absorbable = collisions]
  /\ culled = << >>
  /\ scheduled = 0
  /\ barrier = NoBarrier
  /\ camera = newCameraController
  /\ motion = atRest
  /\ draw = NoDraw

NextHandler ==
  \/ _handleCollisions
  \/ checkAndSpawnObjects

SpecHandler == InitHandler /\ [][NextHandler]_vars

\* ---- one tick from _handleCollisions on, with its errors ----
\* a sphere, a cube of no volume, an element that makes the callback throw;
\* a radius of 1, and the two radii that are no number
TickBodies ==
  { _createObject("sphere", 10, 0, 0), _createObject("box", 0, 0, 0),
    NullBody }
TickSizes == { Radius(W(1)), NaN, Infinity }

\* _gameLoop has called _handleCollisions(collisions)
InitTick ==
  /\ config \in Configs
  /\ pc = "absorb"
  /\ isRunning = TRUE
  /\ sphereSize \in TickSizes
  /\ playerSphere = [created |-> TRUE, name |-> "", x |-> 0, z |-> 0]
  /\ \E b1 \in TickBodies, b2 \in TickBodies :
       objects \in { << b1 >>, << b1, [b2 EXCEPT !.x = W(2)] >> }
  /\ collisions = objects
  /\ itemsAbsorbed = 0
  /\ mode = "none"
  /\ count = 0
  /\ successfulSpawns = 0
  /\ totalAttempts = 0
  /\ cand = NoCand
  /\ attempt = 0
  /\ placed = NoPlaced
  /\ last = NoLast
  /\ absorbedVolume = Fin(0, 0)
  /\ scan = [NoScan EXCEPT !.tick = "scanned", !.absorbable = collisions]
  /\ culled = << >>
  /\ scheduled = 0
  /\ barrier = NoBarrier
  /\ camera = newCameraController
  /\ motion = atRest
  /\ draw = NoDraw

NextTick ==
  \/ _handleCollisions
  \/ checkAndSpawnObjects
  \/ spawnRandomObject
  \/ finishMaintain

SpecTick == InitTick /\ [][NextTick]_vars

\* ---- the two spawn loops and the cull on their own: the initial spawning
\* of a session that asks for far more bodies than the ceiling admits, and
\* checkAndSpawnObjects called during play on a crowded arena, for a player
\* of radius 1 or 6, with a body far from the origin
PopulationConfigs ==
  { [INITIAL_OBJECTS_COUNT |-> CrowdedCount, MAX_OBJECTS_COUNT |-> CrowdedCount,
     RESPAWN_OBJECTS |-> r] : r \in BOOLEAN }

PopulationLayouts ==
  { layout \in
      { << _createObject(f.type, f.size, fx, -W(PLAYABLE_AREA)),
           _createObject("sphere", s1, 0, 0),
           _createObject(n.type, n.size, W(2), 0) >> :
        f \in { [type |-> "sphere", size |-> 10], [type |-> "box", size |-> 10],
                [type |-> "box", size |-> 28] },
        fx \in {0, W(2)},
        s1 \in {10, 19},
        n \in { [type |-> "sphere", size |-> 10], [type |-> "box", size |-> 19] } } :
    ~overlap(layout[2].type, layout[2].size, layout[2].x, layout[2].z, layout[3]) }

InitPopulation ==
  /\ \/ /\ config = [INITIAL_OBJECTS_COUNT |-> BailCount,
                      MAX_OBJECTS_COUNT |-> MaxObjects, RESPAWN_OBJECTS |-> TRUE]
        /\ pc = "menu"
        /\ isRunning = FALSE
        /\ sphereSize = Radius(W(1))
        /\ playerSphere = [created |-> FALSE, name |-> "", x |-> 0, z |-> 0]
        /\ objects = << >>
     \/ /\ config \in PopulationConfigs
        /\ pc = "absorb"
        /\ isRunning = TRUE
        /\ sphereSize \in { Radius(W(1)), Radius(W(6)) }
        /\ playerSphere = [created |-> TRUE, name |-> "", x |-> 0, z |-> 0]
        /\ objects \in PopulationLayouts
  /\ collisions = << >>
  /\ itemsAbsorbed = 0
  /\ mode = "none"
  /\ count = 0
  /\ successfulSpawns = 0
  /\ totalAttempts = 0
  /\ cand = NoCand
  /\ attempt = 0
  /\ placed = NoPlaced
  /\ last = NoLast
  /\ absorbedVolume = Fin(0, 0)
  /\ scan = [NoScan EXCEPT !.tick = "scanned", !.absorbable = collisions]
  /\ culled = << >>
  /\ scheduled = 0
  /\ barrier = NoBarrier
  /\ camera = newCameraController
  /\ motion = atRest
  /\ draw = NoDraw

NextPopulation ==
  \/ start
  \/ spawnAtCeiling
  \/ spawnRandomObject
  \/ finishStart
  \/ checkAndSpawnObjects
  \/ finishMaintain

SpecPopulation == InitPopulation /\ [][NextPopulation]_vars

\* ---- Physics.checkCollisions on barrier meshes ----
\* Lengths of this part are in thousandths of a world unit, velocities in
\* thousandths of a unit per second.  A barrier is an upright box that stands
\* on the ground and is taller than the player, so the point of the box
\* closest to the player's centre is at the centre's height and the geometry
\* is that of a rectangle on the ground; the boxes here are axis-aligned.

Clamp(v, lo, hi) == IF v < lo THEN lo ELSE IF v > hi THEN hi ELSE v

\* Math.max(-half, Math.min(half, local)) per axis
closestPoint(b, x, z) ==
  [x |-> Clamp(x, b.minX, b.maxX), z |-> Clamp(z, b.minZ, b.maxZ)]

\* distance < playerRadius
checkBarrierCollision(x, z, b, playerRadius) ==
  LET c == closestPoint(b, x, z)
  IN  Dist2(x, z, c.x, c.z) < playerRadius * playerRadius

\* the barrier branch of the scan: the barriers of the list the player touches
barrierCollisions(objs, x, z, playerRadius) ==
  LET Hit(b) == checkBarrierCollision(x, z, b, playerRadius)
  IN  SelectSeq(objs, Hit)

\* subVectors(playerPos, worldClosestPoint).normalize(): the zero vector stays
\* the zero vector; off the box the closest point is on a face here, and the
\* unit vector is the face's axis
collisionNormal(dx, dz) == [x |-> Sgn(dx), z |-> Sgn(dz)]

\* one pass of barriers.forEach: p is the player as the passes before left it,
\* (x0, z0) the position cloned before the loop
barrierResponse(p, b, x0, z0) ==
  LET c == closestPoint(b, x0, z0)
      dx == x0 - c.x
      dz == z0 - c.z
      n == collisionNormal(dx, dz)
      penetrationDepth == p.radius - (Abs(dx) + Abs(dz))
      dot == p.vx * n.x + p.vz * n.z
      moved == [p EXCEPT !.x = p.x + (n.x * penetrationDepth * 101) \div 100,
                         !.z = p.z + (n.z * penetrationDepth * 101) \div 100]
  IN  IF penetrationDepth <= 0 THEN p
      ELSE IF dot >= 0 THEN moved
      ELSE [moved EXCEPT !.vx = (7 * (p.vx - 2 * dot * n.x)) \div 10,
                         !.vz = (7 * (p.vz - 2 * dot * n.z)) \div 10]

RECURSIVE handleBarrierCollisions(_, _, _, _)
handleBarrierCollisions(p, barriers, x0, z0) ==
  IF barriers = << >> THEN p
  ELSE handleBarrierCollisions(barrierResponse(p, Head(barriers), x0, z0),
                               Tail(barriers), x0, z0)

\* checkCollisions(playerSphere, objects, playerSize) on a list of barriers:
\* the hits are collected, then handleBarrierCollisions moves the player
scanBarriers ==
  /\ barrier.pc = "given"
  /\ LET hits == barrierCollisions(barrier.objects, barrier.x, barrier.z,
                                   barrier.radius)
     IN  barrier' =
           [handleBarrierCollisions(barrier, hits, barrier.x, barrier.z)
              EXCEPT !.pc = "handled", !.barrierCollisions = hits]
  /\ UNCHANGED << config, pc, isRunning, sphereSize, playerSphere, objects,
                  itemsAbsorbed, mode, count, successfulSpawns, totalAttempts,
                  cand, attempt, collisions, placed, last, absorbedVolume,
                  scan, culled, scheduled, camera, motion, draw >>

\* two segments of the border side by side, one across the corner, in
\* thousandths of a unit
BarrierBoxes ==
  [east  |-> [minX |-> 3000, maxX |-> 5000, minZ |-> -9000, maxZ |-> 9000],
   east2 |-> [minX |-> 3400, maxX |-> 5400, minZ |-> -9000, maxZ |-> 9000],
   north |-> [minX |-> -9000, maxX |-> 9000, minZ |-> 3000, maxZ |-> 5000]]
BarrierLists ==
  { << >>, << BarrierBoxes.east >>, << BarrierBoxes.north >>,
    << BarrierBoxes.east, BarrierBoxes.north >>,
    << BarrierBoxes.north, BarrierBoxes.east >>,
    << BarrierBoxes.east, BarrierBoxes.east2 >> }
BarrierCoordinates == { 0, 2500, 2900, 3000, 4000 }
BarrierVelocities == { -1000, 0, 1000 }
BarrierRadii == { 1000, 1500 }

\* the player anywhere near the border, moving or at rest
InitBarrier ==
  /\ config \in Configs
  /\ pc = "menu"
  /\ isRunning = FALSE
  /\ sphereSize = Radius(W(1))
  /\ playerSphere = [created |-> FALSE, name |-> "", x |-> 0, z |-> 0]
  /\ objects = << >>
  /\ itemsAbsorbed = 0
  /\ mode = "none"
  /\ count = 0
  /\ successfulSpawns = 0
  /\ totalAttempts = 0
  /\ cand = NoCand
  /\ attempt = 0
  /\ collisions = << >>
  /\ placed = NoPlaced
  /\ last = NoLast
  /\ absorbedVolume = Fin(0, 0)
  /\ scan = NoScan
  /\ culled = << >>
  /\ scheduled = 0
  /\ \E x \in BarrierCoordinates, z \in BarrierCoordinates,
        vx \in BarrierVelocities, vz \in BarrierVelocities,
        r \in BarrierRadii, list \in BarrierLists :
       barrier = [pc |-> "given", x |-> x, z |-> z, vx |-> vx, vz |-> vz,
                  radius |-> r, objects |-> list,
                  barrierCollisions |-> << >>]
  /\ camera = newCameraController
  /\ motion = atRest
  /\ draw = NoDraw

NextBarrier == scanBarriers

SpecBarrier == InitBarrier /\ [][NextBarrier]_vars

\* ---- the camera on its own ----
\* the radii updateCameraForSize is called with: growSphere and update()
\* hand it the player's radius
CameraSizes == { None, -5, 0, 1, 5, 10, 15, 20, 25, 50, 75, 100, 125, 150, 200 }

setCameraForSize ==
  /\ \E size \in CameraSizes : camera' = updateCameraForSize(camera, size)
  /\ UNCHANGED << config, pc, isRunning, sphereSize, playerSphere, objects,
                  itemsAbsorbed, mode, count, successfulSpawns, totalAttempts,
                  cand, attempt, collisions, placed, last, absorbedVolume,
                  scan, culled, scheduled, barrier, motion, draw >>

NextCamera == setCameraForSize

SpecCamera == Init /\ [][NextCamera]_vars

\* ---- the motion on its own ----
\* frame times of 20 and 40 ms, over a span of MaxTime ms
Deltas == { 20, 40 }
MaxTime == 120

\* one tick of _gameLoop with nothing in reach: inputHandler.update(delta),
\* then physics.applyPhysics(playerSphere, delta)
moveTick ==
  /\ \E delta \in Deltas, key \in BOOLEAN :
       /\ motion.t + delta <= MaxTime
       /\ motion' = [applyPhysics(update(motion, key, delta), delta)
                      EXCEPT !.t = motion.t + delta,
                             !.held = motion.held /\ key,
                             !.ticks = motion.ticks + 1]
  /\ UNCHANGED << config, pc, isRunning, sphereSize, playerSphere, objects,
                  itemsAbsorbed, mode, count, successfulSpawns, totalAttempts,
                  cand, attempt, collisions, placed, last, absorbedVolume,
                  scan, culled, scheduled, barrier, camera, draw >>

NextMotion == moveTick

SpecMotion == Init /\ [][NextMotion]_vars

\* ---- the size draw on its own ----
\* Math.random() in steps of 1/100 over [0, 1), as numerators over 800
UniformDraws == { 8 * k : k \in 0..99 }

\* the size lines of spawnRandomObject for a definition of the small
\* category: the size it draws from U, and what randomInRange gives for the
\* same U
drawSize ==
  /\ \E i \in 1..Len(smallObjects), u \in UniformDraws :
       LET def == smallObjects[i]
           minSize == def.sizeRange[1]
           maxSize == Min(def.sizeRange[2], W(MAX_OBJECT_SIZE))
       IN  draw' = [id |-> def.id, u |-> u, minSize |-> minSize,
                    maxSize |-> maxSize, size |-> PickSize(0, def, u),
                    uniform |-> randomInRange(minSize, maxSize, u)]
  /\ UNCHANGED << config, pc, isRunning, sphereSize, playerSphere, objects,
                  itemsAbsorbed, mode, count, successfulSpawns, totalAttempts,
                  cand, attempt, collisions, placed, last, absorbedVolume,
                  scan, culled, scheduled, barrier, camera, motion >>

NextDraw == drawSize

SpecDraw == Init /\ [][NextDraw]_vars

\* ===================================================================
\* Properties
\* ===================================================================

\* ten times the effective collision radius of a body: the size for a
\* sphere, 0.7 of it for a cube, 0.5 of it for a cone or cylinder
EffectiveCollisionRadius(type, size) ==
  CASE type = "box" -> 7 * size
    [] type \in {"cone", "cylinder"} -> 5 * size
    [] OTHER -> 10 * size

\* two bodies keep the clearance: horizontal distance >= sum of the effective
\* collision radii + 0.5
Clear(b1, b2) ==
  LET need == EffectiveCollisionRadius(b1.type, b1.size)
              + EffectiveCollisionRadius(b2.type, b2.size) + 100
      d2 == Dist2(b1.x, b1.z, b2.x, b2.z)
  IN  d2 >= (need * need + 99) \div 100

\* C5: every position the allocator returns is at horizontal distance at
\* least c + (that body's effective collision radius) + 0.5 from every body
\* already tracked, c being the candidate's effective collision radius; hence
\* every pair of live bodies keeps that clearance.
C5_BodyClearance ==
  \A i \in 1..Len(objects) : \A j \in 1..Len(objects) :
    i < j => Clear(objects[i], objects[j])

\* a second body was accepted two world units from the first
C5_Witness ==
  /\ placed.result = "placed"
  /\ Len(objects) = 2
  /\ Dist2(objects[1].x, objects[1].z, objects[2].x, objects[2].z) = W(2) * W(2)

\* C7: both horizontal coordinates of every spawned body lie in
\* [-maxCoord, maxCoord], maxCoord = min(playableArea, mapSize/2 - size), so
\* every spawned body is inside the playable sub-region.
C7_InsidePlayableArea ==
  \A i \in 1..Len(objects) :
    LET limit == Min(W(PLAYABLE_AREA), W(MAP_SIZE) \div 2 - objects[i].size)
    IN  /\ -limit <= objects[i].x /\ objects[i].x <= limit
        /\ -limit <= objects[i].z /\ objects[i].z <= limit
        /\ limit <= W(PLAYABLE_AREA)

\* a body was placed on the edge of the playable area
C7_Witness ==
  /\ placed.result = "placed"
  /\ placed.z = -W(PLAYABLE_AREA)

\* C9: the population never exceeds MAX_OBJECTS_COUNT, whatever sequence of
\* initial spawning, maintenance, absorption and culling has run.
C9_PopulationCeiling == Len(objects) <= config.MAX_OBJECTS_COUNT

\* a spawn was refused because the population stood at the ceiling
C9_Witness ==
  /\ placed.result = "null"
  /\ placed.before = config.MAX_OBJECTS_COUNT
  /\ Len(objects) = config.MAX_OBJECTS_COUNT

\* the population maintenance aims at
DesiredCount == Min(config.MAX_OBJECTS_COUNT, config.INITIAL_OBJECTS_COUNT)

\* C10: the initial spawning makes at most 2 * INITIAL_OBJECTS_COUNT spawn
\* attempts and maintenance at most 2 * (desired - population at its start),
\* none when the population already stands at the desired count; stopping
\* with fewer bodies than wanted leaves the loop like any other outcome.
C10_AttemptCeiling ==
  /\ mode = "initial" => totalAttempts <= 2 * config.INITIAL_OBJECTS_COUNT
  /\ mode = "maintain" =>
       LET missing == DesiredCount - (Len(objects) - successfulSpawns)
       IN  IF missing > 0 THEN totalAttempts <= 2 * missing
           ELSE totalAttempts = 0
  /\ (pc = "spawnLoop" /\ totalAttempts >= 2 * count) =>
       ENABLED (finishStart \/ finishMaintain)

\* the initial spawning stopped at its ceiling with fewer bodies than asked
C10_Witness ==
  /\ pc = "spawnLoop"
  /\ mode = "initial"
  /\ totalAttempts = 2 * config.INITIAL_OBJECTS_COUNT
  /\ successfulSpawns < config.INITIAL_OBJECTS_COUNT
  /\ ~loopContinues

\* the volume of the player sphere at construction: (4/3) pi 1^3
InitialVolume == Fin(4 * W(1) * W(1) * W(1), 0)

\* C1: through any sequence of absorptions the volume of the player sphere,
\* (4/3) pi r^3, equals its initial volume plus the sum of the shape volumes
\* of the absorbed bodies (sphere (4/3) pi s^3, cube s^3, cone (1/3) pi s^2
\* 2s, cylinder pi s^2 2s, any other shape 0.5 s^3).
C1_VolumeConserved ==
  /\ sphereSize.k = "fin"
  /\ sphereSize.a = InitialVolume.a + absorbedVolume.a
  /\ sphereSize.b = InitialVolume.b + absorbedVolume.b

\* a cone has just been absorbed after an earlier body
C1_Witness ==
  /\ last.event = "absorbed"
  /\ last.obj.type = "cone"
  /\ itemsAbsorbed = 2

\* C2: the radius never decreases; every absorption that is carried out
\* leaves it strictly greater than before; and nothing but an absorption
\* changes it.
C2_RadiusMonotonic ==
  [][ /\ ~RadiusLess(sphereSize', sphereSize)
      /\ itemsAbsorbed' # itemsAbsorbed => RadiusLess(sphereSize, sphereSize')
      /\ sphereSize' # sphereSize =>
           /\ pc = "absorb" /\ collisions # << >>
           /\ itemsAbsorbed' = itemsAbsorbed + 1
           /\ Len(objects') = Len(objects) - 1 ]_vars

\* an absorption has just made the radius larger
C2_Witness ==
  /\ last.event = "absorbed"
  /\ RadiusLess(last.before, sphereSize)
  /\ itemsAbsorbed = last.itemsBefore + 1

\* a position keeps the clearance from the player: horizontal distance >=
\* playerRadius + candidateRadius + 5.  (The radius enters by its integer
\* lower bound, which is the radius itself until the first absorption.)
PlayerClear(type, size, x, z) ==
  LET need == 10 * CbrtLow(sphereSize) + EffectiveCollisionRadius(type, size)
              + W(50)
      d2 == Dist2(x, z, playerSphere.x, playerSphere.z)
  IN  d2 >= (need * need + 99) \div 100

\* C6: every position the allocator returns is at horizontal distance at
\* least playerRadius + candidateRadius + 5 from the player's centre, in the
\* initial spawning and in maintenance alike.
C6_PlayerClearance ==
  placed.result = "placed" => PlayerClear(placed.type, placed.size, placed.x, placed.z)

\* a number that is NaN, infinite, or not positive
NonFiniteOrNonPositive(v) == v.k # "fin" \/ Sign(v.a, v.b) <= 0

\* the absorption last processed left radius, count and population alone
Discarded ==
  /\ sphereSize = last.before
  /\ itemsAbsorbed = last.itemsBefore
  /\ Len(objects) = last.lenBefore
  /\ last.inList => \E i \in 1..Len(objects) : objects[i] = last.obj

C4_InvalidRadiusSkipped ==
  (last.event # "none" /\ NonFiniteOrNonPositive(last.newSize)) =>
    (last.event = "skipped" /\ Discarded)

\* C8: the allocator examines at most MAX_ATTEMPTS = 50 candidates and
\* returns the first that keeps both the clearance from the player and the
\* clearance from every tracked body; it returns null only after 50
\* candidates, and then spawnRandomObject adds no body.
C8_FirstAcceptableOrNull ==
  /\ attempt <= MAX_ATTEMPTS
  /\ placed.attempts <= MAX_ATTEMPTS
  /\ placed.result = "placed" =>
       /\ PlayerClear(placed.type, placed.size, placed.x, placed.z)
       /\ \A i \in 1..placed.before :
            Clear(objects[i], _createObject(placed.type, placed.size,
                                            placed.x, placed.z))
       /\ Len(objects) = placed.before + 1
  /\ (placed.result = "null" /\ placed.before < config.MAX_OBJECTS_COUNT) =>
       /\ placed.attempts = MAX_ATTEMPTS
       /\ Len(objects) = placed.before

\* a spawn loop has returned with fewer bodies than it was asked for
ReturnsShort ==
  /\ pc = "spawnLoop"
  /\ ~loopContinues
  /\ successfulSpawns < count

\* C11: whenever spawnInitial or maintain returns having spawned fewer
\* bodies than desired, it has made exactly 2 x desired attempts.
C11_ShortOnlyAtCeiling == ReturnsShort => totalAttempts = 2 * count

\* C11 as the code has it: a loop that returns short has made exactly
\* 2 x desired attempts, or it has taken its early exit: the initial spawning
\* after 100 or more attempts with fewer than one success in ten, maintenance
\* after exactly 10 attempts without a success; and maintenance never makes
\* an eleventh attempt without a success.
C11_CeilingOrEarlyExit ==
  /\ ReturnsShort =>
       \/ totalAttempts = 2 * count
       \/ mode = "initial" /\ totalAttempts >= 100
            /\ 10 * successfulSpawns < totalAttempts
       \/ mode = "maintain" /\ totalAttempts = 10 /\ successfulSpawns = 0
  /\ (pc = "spawnLoop" /\ mode = "maintain" /\ successfulSpawns = 0) =>
       totalAttempts <= 10

\* maintenance gave up after ten failed attempts, short of its ceiling
C11_Witness ==
  /\ ReturnsShort
  /\ mode = "maintain"
  /\ totalAttempts = 10
  /\ totalAttempts < 2 * count

\* the squared distance of a body's centre from the origin exceeds
\* playableArea squared
Far(obj) ==
  4 * (obj.x * obj.x + obj.z * obj.z) + Y2(obj) * Y2(obj)
    > 4 * W(PLAYABLE_AREA) * W(PLAYABLE_AREA)

\* a body is in a list
In(obj, objs) == \E i \in 1..Len(objs) : objs[i] = obj

\* C12: with the respawn flag disabled checkAndSpawnObjects spawns no body
\* but still culls: after it no body is left that is smaller than a tenth of
\* the player radius, smaller than 5 and far from the origin.
C12_CullsWithRespawnOff ==
  [][ (pc = "absorb" /\ collisions = << >> /\ ~config.RESPAWN_OBJECTS) =>
        /\ Len(objects') <= Len(objects)
        /\ \A i \in 1..Len(objects') :
             ~ ( /\ 10 * objects'[i].size < CbrtLow(sphereSize)
                 /\ objects'[i].size < W(5)
                 /\ Far(objects'[i]) ) ]_vars

FreshScan ==
  \/ scan.tick = "done"
  \/ scan.tick = "scanned" /\ last = NoLast /\ collisions = scan.absorbable

\* the centre of a body against the scan position of the player, who rests
\* on the ground with its centre at the height of its radius r: with R = R10/10
\* the body's radius, distance < r + R iff OverlapN < r * OverlapD
OverlapN(obj, R10) ==
  400 * Dist2(scan.x, scan.z, obj.x, obj.z) + 100 * Y2(obj) * Y2(obj)
    - 4 * R10 * R10
OverlapD(obj, R10) == 80 * R10 + 400 * Y2(obj)

\* the scan position is further than ten units from the body, beyond the
\* reach of any radius of the model
OutOfReach(obj) == Dist2(scan.x, scan.z, obj.x, obj.z) >= W(10) * W(10)

\* distance >= playerRadius + R for sure, on the integer bounds of the radius
SurelyApart(obj, R10) ==
  \/ OutOfReach(obj)
  \/ /\ OverlapN(obj, R10) >= OverlapD(obj, R10) * CbrtLow(sphereSize)
     /\ OverlapN(obj, R10) >= OverlapD(obj, R10) * CbrtHigh(sphereSize)

\* distance < playerRadius + R for sure
SurelyOverlapping(obj, R10) ==
  /\ ~OutOfReach(obj)
  /\ OverlapN(obj, R10) < OverlapD(obj, R10) * CbrtLow(sphereSize)
  /\ OverlapN(obj, R10) < OverlapD(obj, R10) * CbrtHigh(sphereSize)

\* C15: the radius the collision detector tests a body with is
\* nominalSize * shapeFactor[shapeKind], the allocator's table (0.7 for a
\* cube, 0.5 for a cone or cylinder): a body it reports is closer to the
\* player than playerRadius + that radius.
C15_DetectorUsesShapeFactor ==
  FreshScan =>
    \A obj \in { scan.absorbable[i] : i \in 1..Len(scan.absorbable) }
              \cup { scan.blocking[i] : i \in 1..Len(scan.blocking) } :
      ~SurelyApart(obj, EffectiveCollisionRadius(obj.type, obj.size))

\* C14: checkCollisions partitions what it reports: a body closer than
\* playerRadius + its effective radius is in exactly one list, absorbable if
\* its size is below the player radius and blocking otherwise; a body that
\* does not overlap is in neither.
C14_ReportPartition ==
  FreshScan =>
    \A i \in 1..Len(objects) :
      LET obj == objects[i]
          R10 == EffectiveCollisionRadius(obj.type, obj.size)
      IN  /\ ~(In(obj, scan.absorbable) /\ In(obj, scan.blocking))
          /\ In(obj, scan.absorbable) => obj.size < CbrtHigh(sphereSize)
          /\ In(obj, scan.blocking) => obj.size >= CbrtLow(sphereSize)
          /\ SurelyOverlapping(obj, R10) =>
               In(obj, scan.absorbable) \/ In(obj, scan.blocking)
          /\ SurelyApart(obj, R10) =>
               ~In(obj, scan.absorbable) /\ ~In(obj, scan.blocking)

\* the same partition with the radius the detector does use, the nominal
\* size
C14_ReportPartitionNominal ==
  FreshScan =>
    \A i \in 1..Len(objects) :
      LET obj == objects[i]
      IN  /\ ~(In(obj, scan.absorbable) /\ In(obj, scan.blocking))
          /\ In(obj, scan.absorbable) => obj.size < CbrtHigh(sphereSize)
          /\ In(obj, scan.blocking) => obj.size >= CbrtLow(sphereSize)
          /\ SurelyOverlapping(obj, 10 * obj.size) =>
               In(obj, scan.absorbable) \/ In(obj, scan.blocking)
          /\ SurelyApart(obj, 10 * obj.size) =>
               ~In(obj, scan.absorbable) /\ ~In(obj, scan.blocking)

\* the slack granted to the push-out, in model units: 4 is 0.2 world units
PenetrationSlack == 4

\* the player, resting where the tick left it, is deeper than the slack inside
\* a body of radius R10/10, for sure on the integer bounds of its own radius:
\* distance < playerRadius + R - slack
PenetratesN(obj, R10) ==
  400 * Dist2(playerSphere.x, playerSphere.z, obj.x, obj.z)
    + 100 * Y2(obj) * Y2(obj) - 4 * R10 * R10
Penetrates(obj) ==
  LET R10 == EffectiveCollisionRadius(obj.type, obj.size) - 10 * PenetrationSlack
  IN  /\ R10 > 0
      /\ Dist2(playerSphere.x, playerSphere.z, obj.x, obj.z) < W(10) * W(10)
      /\ PenetratesN(obj, R10) < OverlapD(obj, R10) * CbrtLow(sphereSize)
      /\ PenetratesN(obj, R10) < OverlapD(obj, R10) * CbrtHigh(sphereSize)

\* a tick has run to its end: the scan, the push-out and, if anything was
\* absorbed, the growth and the maintenance are over
TickCompleted == pc = "frame" /\ scan.tick \in {"done", "maintained"}

\* C16: at the end of every completed tick the player's sphere is not inside
\* a blocking body (one at least as large as the player) by more than a small
\* epsilon.
C16_NoPenetrationAtTickEnd ==
  TickCompleted =>
    \A i \in 1..Len(objects) :
      objects[i].size >= CbrtHigh(sphereSize) => ~Penetrates(objects[i])

\* the slack of the barrier response, 0.01 units
BarrierEpsilon == 10

\* the penetration of the player into a barrier, recomputed where the
\* response left it, is above the slack: playerRadius - distance > 0.01
BarrierPenetrated(b) ==
  LET c == closestPoint(b, barrier.x, barrier.z)
      reach == barrier.radius - BarrierEpsilon
  IN  Dist2(barrier.x, barrier.z, c.x, c.z) < reach * reach

\* C17: after handleBarrierCollisions has processed the barriers that were
\* hit, the player is inside none of them by more than 0.01, several hits in
\* one tick and a centre inside the box included.
C17_BarrierPenetrationCorrected ==
  barrier.pc = "handled" =>
    \A i \in 1..Len(barrier.barrierCollisions) :
      ~BarrierPenetrated(barrier.barrierCollisions[i])

tickInProgress ==
  \/ pc = "absorb"
  \/ pc \in {"spawnLoop", "placing"} /\ mode = "maintain"

\* start() has returned and the flag has been cleared since
Stopped == pc = "frame" /\ ~isRunning

\* C19: the running flag is checked at the top of a tick.  Once it is
\* cleared the pending callback returns at once, changes nothing and requests
\* no frame, so that nothing is pending afterwards; a tick in progress is not
\* cancelled: the flag is still set, its next step can be taken, and no other
\* callback is pending; while the flag is set, exactly one callback is pending
\* between two ticks.
C19_FlagCheckedAtTop ==
  /\ [](tickInProgress =>
          /\ isRunning
          /\ scheduled = 0
          /\ ENABLED (_handleCollisions \/ checkAndSpawnObjects
                        \/ spawnAtCeiling \/ spawnRandomObject
                        \/ finishMaintain))
  /\ []((pc = "frame" /\ isRunning) => scheduled = 1)
  /\ [](Stopped => scheduled \in {0, 1})
  /\ [][ Stopped =>
           /\ scheduled' = scheduled - 1
           /\ UNCHANGED << config, pc, isRunning, sphereSize, playerSphere,
                           objects, itemsAbsorbed, mode, count,
                           successfulSpawns, totalAttempts, cand, attempt,
                           collisions, placed, last, absorbedVolume, scan,
                           culled, barrier, camera, motion, draw >> ]_vars

\* the flag has been cleared after a tick that absorbed a body, and the
\* callback that was pending has returned at the top
C19_Witness ==
  /\ Stopped
  /\ scheduled = 0
  /\ itemsAbsorbed > 0

\* C20: a non-fatal error is local.  Whatever one element of the list comes
\* to (absorbed, skipped for an invalid radius, an exception caught), the
\* handler goes on with the elements after it, and a skipped or failed one
\* changes neither the radius nor the population nor the count; once the list
\* is through the maintenance is called; a spawn that finds no position adds
\* nothing and leaves the loop running; the tick, which can always take its
\* next step, ends by requesting the next frame.
C20_ErrorsAreLocal ==
  /\ [](tickInProgress => ENABLED NextTick)
  /\ [][ /\ (pc = "absorb" /\ collisions # << >>) =>
              /\ pc' = "absorb"
              /\ collisions' = Tail(collisions)
              /\ last'.obj = Head(collisions)
              /\ last'.event \in {"skipped", "threw"} =>
                   UNCHANGED << sphereSize, objects, itemsAbsorbed >>
         /\ (pc = "absorb" /\ collisions = << >>) =>
              /\ pc' = IF config.RESPAWN_OBJECTS THEN "spawnLoop" ELSE "frame"
              /\ config.RESPAWN_OBJECTS => mode' = "maintain"
         /\ (pc = "spawnLoop" /\ placed'.result = "null") =>
              /\ objects' = objects
              /\ pc' = "spawnLoop"
              /\ mode' = mode
              /\ UNCHANGED << sphereSize, itemsAbsorbed, scheduled >>
         /\ (tickInProgress /\ pc' = "frame") =>
              scheduled' = scheduled + 1 ]_vars

\* an exception was caught on the first element of the list and the second
\* has been absorbed after it
C20_Witness ==
  /\ pc = "absorb"
  /\ last.event = "absorbed"
  /\ last.lenBefore = 2
  /\ last.itemsBefore = 0
  /\ throws(objects[1])

\* a required count is absent from the configuration
ConfigurationMissing ==
  \/ ~present(config, "INITIAL_OBJECTS_COUNT")
  \/ ~present(config, "MAX_OBJECTS_COUNT")

\* C21: with a required configuration parameter absent the session does not
\* begin: no body is spawned, the game is never running and no tick is run.
C21_MissingConfigurationIsFatal ==
  ConfigurationMissing =>
    /\ objects = << >>
    /\ ~isRunning
    /\ scan.tick = "none"

\* the scan of the last tick and the place the response left the player at
\* are both on record
ResponseOnRecord == scan.tick \in {"scanned", "done"}

\* the body overlaps the player, as the detector measures it with the nominal
\* size, by more than 0.4 for sure: the correction is then capped at 0.2
DeepOverlap(obj) ==
  /\ 10 * obj.size > 80
  /\ SurelyOverlapping(obj, 10 * obj.size - 80)

\* C22: a blocking body that overlaps the player pushes it: the response
\* moves the player (and changes its velocity) along the direction away from
\* the body's centre, wherever the two centres are, one above the other
\* included.
C22_BlockingBodyPushesPlayer ==
  (ResponseOnRecord /\ Len(scan.blocking) = 1 /\ DeepOverlap(scan.blocking[1]))
    => (playerSphere.x # scan.x \/ playerSphere.z # scan.z)

\* C23: the bodies of the population are static: the collision response
\* leaves every body where it is, and whatever a step does, a body that is
\* in the population after it is either a body that was there before, at the
\* same place, or the one body just spawned.
C23_BodiesStatic ==
  [][ /\ pc = "frame" => objects' = objects
      /\ \A i \in 1..Len(objects') :
           \/ In(objects'[i], objects)
           \/ /\ i = Len(objects')
              /\ Len(objects') = Len(objects) + 1
              /\ placed'.result = "placed" ]_vars

\* a blocking body has pushed the player and is where it was
C23_Witness ==
  /\ ResponseOnRecord
  /\ scan.blocking # << >>
  /\ playerSphere.x # scan.x
  /\ In(scan.blocking[1], objects)

\* the radii of CameraSizes that pass the safety check as they are
PositiveCameraSizes == { r \in CameraSizes : r # None /\ r > 0 }

\* C24: with the field of view the camera has, the zoom rate and the arena
\* scale fixed, the distance updateCameraForSize sets does not decrease as
\* the radius grows.
C24_DistanceMonotone ==
  \A r1 \in PositiveCameraSizes, r2 \in PositiveCameraSizes :
    r1 <= r2 =>
      updateCameraForSize(camera, r1).distance
        <= updateCameraForSize(camera, r2).distance

\* the camera has been set for the largest radius twice: the field of view
\* is at its upper limit and the distance was computed with it
C24_Witness ==
  /\ camera.sphereSize = 200
  /\ camera.fov = 1000
  /\ camera.fovBefore = 1000
  /\ camera.distance = cameraDistance(200, 1000)

\* C25: after a call of updateCameraForSize the distance is the one that
\* belongs to the field of view derived from the same radius, the field of
\* view having been set first, and the field of view is within [60, 100].
C25_DistanceAtFovOfSameRadius ==
  /\ camera.fov >= 600
  /\ camera.fov <= 1000
  /\ camera.fov = targetFOV(camera.sphereSize)
  /\ camera.distance = cameraDistance(camera.sphereSize, camera.fov)

\* C26: the integration is delta-scaled and applied once per tick, so the
\* distance travelled over a span of time with the key held does not depend
\* on the number of ticks the span is divided into: it is what a single tick
\* of that length gives, within a thousandth of a unit.
C26_FrameRateIndependent ==
  (motion.held /\ motion.t \in Deltas) =>
    LET single == applyPhysics(update(atRest, TRUE, motion.t), motion.t)
    IN  Abs(motion.z - single.z) <= 1000

\* C27: every body spawned by spawnRandomObject has a nominalSize that is
\* positive, not greater than MAX_OBJECT_SIZE, and inside the range of a
\* definition of its shape, [sizeRange[0], min(sizeRange[1], MAX_OBJECT_SIZE)],
\* also when MAX_OBJECT_SIZE is below the definition's minimum.
C27_SpawnedSizeInRange ==
  placed.result = "placed" =>
    /\ placed.size > 0
    /\ placed.size <= W(MAX_OBJECT_SIZE)
    /\ \E i \in 1..Len(objectDefinitions) :
         LET def == objectDefinitions[i]
         IN  /\ def.geometryType = placed.type
             /\ def.sizeRange[1] <= placed.size
             /\ placed.size <= Min(def.sizeRange[2], W(MAX_OBJECT_SIZE))

\* C28: a body absorbed in a tick leaves the population exactly once and
\* raises HUDController.itemsAbsorbed by exactly one: in every step the
\* counter rises by the number of bodies the handler removed, so the counter
\* is always the number of bodies removed by absorption; the body removed is
\* in the tracked list before and in neither the list nor the rest of the
\* report after, and every body still reported is still tracked.
C28_AbsorbedOnceCountedOnce ==
  [][ IF pc = "absorb" /\ collisions # << >>
      THEN LET object == Head(collisions)
           IN  /\ itemsAbsorbed' - itemsAbsorbed = Len(objects) - Len(objects')
               /\ itemsAbsorbed' - itemsAbsorbed \in {0, 1}
               /\ (itemsAbsorbed' = itemsAbsorbed + 1) <=> (last'.event = "absorbed")
               /\ last'.event = "absorbed" =>
                    /\ \E i \in 1..Len(objects) : objects[i] = object
                    /\ \A i \in 1..Len(objects') : objects'[i] # object
                    /\ \A i \in 1..Len(collisions') : collisions'[i] # object
               /\ \A i \in 1..Len(collisions') :
                    \E j \in 1..Len(objects') : objects'[j] = collisions'[i]
      ELSE itemsAbsorbed' = itemsAbsorbed ]_vars

\* two bodies have been absorbed, the second one just now: it was tracked,
\* it is gone, the list is one shorter and the counter one higher
C28_Witness ==
  /\ last.event = "absorbed"
  /\ last.inList
  /\ last.itemsBefore = 1
  /\ itemsAbsorbed = 2
  /\ Len(objects) = last.lenBefore - 1
  /\ \A i \in 1..Len(objects) : objects[i] # last.obj

\* C29: for the small category the sample min + sqrt(U) * (max - min) skews
\* toward the lower end of the range: for every U in [0, 1) it is no larger
\* than the uniform sample min + U * (max - min) of the same U.
C29_SqrtDrawNoLargerThanUniform ==
  draw.id # "none" => draw.size <= draw.uniform

\* C30: a body spawned during a call of checkAndSpawnObjects is never removed
\* by the cull that ends the same call: when the spawn loop of a maintain
\* call has ended, none of the bodies it appended is one _cullTinyObjects
\* removes, whatever the player's radius.
C30_SpawnedBodySurvivesCull ==
  (pc = "spawnLoop" /\ mode = "maintain" /\ ~loopContinues) =>
    \A i \in (Len(objects) - successfulSpawns + 1)..Len(objects) :
      ~isCulled(objects[i], sphereSize)

====
